---- MODULE Spec2Model ----
(***************************************************************************)
(* Model of src/transformers/tape.js: the Tape -> Jest codemod.            *)
(*                                                                         *)
(* One run of tapeToJest(fileInfo, api) is one behaviour.  The file is a   *)
(* tree holding its require statements, one test-registration call and at  *)
(* most one call on the assertion object `t`.  The six transforms run in   *)
(* array order over the same mutable tree; a JavaScript exception raised   *)
(* inside a transform ends the run in pc = "threw".                        *)
(***************************************************************************)
EXTENDS Integers, Sequences, FiniteSets, TLC

VARIABLES fileInfo, ast, testFunctionName, pc, ran, warnings, output

vars == <<fileInfo, ast, testFunctionName, pc, ran, warnings, output>>

(***************************************************************************)
(* Bounds of the explored inputs.                                          *)
(***************************************************************************)
\* largest number of arguments of a call on the assertion object
MaxArgs == 3

(***************************************************************************)
(* Rule tables.                                                            *)
(***************************************************************************)
SPECIAL_THROWS_CASE == "(special throws case)"

tapeToJestExpect ==
    [ ok |-> "toBeTruthy", true |-> "toBeTruthy", assert |-> "toBeTruthy",
      notOk |-> "toBeFalsy", false |-> "toBeFalsy", notok |-> "toBeFalsy",
      equal |-> "toBe", equals |-> "toBe", isEqual |-> "toBe",
      strictEqual |-> "toBe", strictEquals |-> "toBe",
      notEqual |-> "not.toBe", notStrictEqual |-> "not.toBe",
      notStrictEquals |-> "not.toBe", isNotEqual |-> "not.toBe",
      doesNotEqual |-> "not.toBe", isInequal |-> "not.toBe",
      deepEqual |-> "toEqual", isEquivalent |-> "toEqual", same |-> "toEqual",
      notDeepEqual |-> "not.toEqual", notEquivalent |-> "not.toEqual",
      notDeeply |-> "not.toEqual", notSame |-> "not.toEqual",
      isNotDeepEqual |-> "not.toEqual", isNotEquivalent |-> "not.toEqual",
      isInequivalent |-> "not.toEqual",
      throws |-> SPECIAL_THROWS_CASE, doesNotThrow |-> SPECIAL_THROWS_CASE ]

unsupportedTProperties ==
    { "timeoutAfter",
      "deepLooseEqual", "looseEqual", "looseEquals",
      "notDeepLooseEqual", "notLooseEqual", "notLooseEquals",
      "fail", "pass", "error", "ifErr", "iferror", "skip" }

unsupportedTestFunctionProperties == { "createStream", "onFinish" }

problematicPackages == <<"proxyquire", "testdouble">>

(***************************************************************************)
(* Syntax nodes.  Every node carries the same fields so that nodes of      *)
(* different kinds can sit in one argument list.                           *)
(***************************************************************************)
Node(type, name, value, vtype, properties, params) ==
    [ type |-> type, name |-> name, value |-> value, vtype |-> vtype,
      properties |-> properties, params |-> params ]

\* the value of a missing array element or a missing property
Undefined == Node("undefined", "", "", "undefined", <<>>, <<>>)

Identifier(name) == Node("Identifier", name, "", "undefined", <<>>, <<>>)
StringLiteral(v) == Node("Literal", "", v, "string", <<>>, <<>>)
RegExpLiteral(v) == Node("Literal", "", v, "object", <<>>, <<>>)
\* literal values are kept as their source text; vtype is JavaScript's typeof
BooleanLiteral(v) == Node("Literal", "", v, "boolean", <<>>, <<>>)
NumberLiteral(v) == Node("Literal", "", v, "number", <<>>, <<>>)
ObjectExpression(props) == Node("ObjectExpression", "", "", "undefined", props, <<>>)
ArrowFunctionExpression(params) ==
    Node("ArrowFunctionExpression", "", "", "undefined", <<>>, params)
FunctionExpression(params) ==
    Node("FunctionExpression", "", "", "undefined", <<>>, params)
\* a node that is neither a function nor has parameters (statement, block, call)
Plain(type) == Node(type, "", "", "undefined", <<>>, <<>>)

\* array[i] as JavaScript reads it (i counted from 1 here)
At(array, i) == IF i \in 1..Len(array) THEN array[i] ELSE Undefined

\* an object property `key: value`; a spread element has neither key nor value
Property(key, value) == [ key |-> key, value |-> value ]
SpreadProperty == [ key |-> Undefined, value |-> Undefined ]

\* callee of a call: an identifier `name`, a member `object.property`,
\* or (after updateTapeComments) a bare string
CalleeName(name) == [ type |-> "Identifier", name |-> name, object |-> "", property |-> "" ]
CalleeMember(object, property) ==
    [ type |-> "MemberExpression", name |-> "", object |-> object, property |-> property ]
CalleeString(text) == [ type |-> "string", name |-> text, object |-> "", property |-> "" ]

NoCallee == [ type |-> "none", name |-> "", object |-> "", property |-> "" ]

\* expression nodes that the transforms match and build
CallNode(callee, arguments) ==
    [ type |-> "CallExpression", callee |-> callee, arguments |-> arguments,
      object |-> <<>>, property |-> <<>> ]
MemberNode(object, property) ==
    [ type |-> "MemberExpression", callee |-> NoCallee, arguments |-> <<>>,
      object |-> <<object>>, property |-> <<property>> ]

\* ast-types builders check their fields: an undefined element in the
\* argument list is rejected with an exception
BuilderThrows(arguments) == \E i \in 1..Len(arguments) : arguments[i] = Undefined

(***************************************************************************)
(* Input files.                                                            *)
(***************************************************************************)
Bindings == { "test", "tape" }

\* stands for the test call's last argument in an ancestor chain
TestCallback == Plain("<test callback>")

\* ancestors of a call on `t`, nearest first, for each place it can stand
Ancestors(where) ==
    CASE where = "top" ->
           << Plain("ExpressionStatement"), Plain("Program"), Plain("File") >>
      [] where = "body" ->
           << Plain("ExpressionStatement"), Plain("BlockStatement"), TestCallback,
              Plain("CallExpression"), Plain("ExpressionStatement"), Plain("Program") >>
      [] where = "if" ->
           << Plain("ExpressionStatement"), Plain("BlockStatement"),
              Plain("IfStatement"), Plain("BlockStatement"), TestCallback,
              Plain("CallExpression"), Plain("ExpressionStatement"), Plain("Program") >>
      [] where = "try" ->
           << Plain("ExpressionStatement"), Plain("BlockStatement"),
              Plain("TryStatement"), Plain("BlockStatement"), TestCallback,
              Plain("CallExpression"), Plain("ExpressionStatement"), Plain("Program") >>
      [] where = "arrowBody" ->
           << TestCallback, Plain("CallExpression"),
              Plain("ExpressionStatement"), Plain("Program") >>
      [] where = "callbackExpr" ->
           << ArrowFunctionExpression(<<>>), Plain("CallExpression"),
              Plain("ExpressionStatement"), Plain("BlockStatement"), TestCallback,
              Plain("CallExpression"), Plain("ExpressionStatement"), Plain("Program") >>
      [] where = "callbackBlock" ->
           << Plain("ExpressionStatement"), Plain("BlockStatement"),
              ArrowFunctionExpression(<<>>), Plain("CallExpression"),
              Plain("ExpressionStatement"), Plain("BlockStatement"), TestCallback,
              Plain("CallExpression"), Plain("ExpressionStatement"), Plain("Program") >>
      [] where = "callbackT" ->
           << Plain("ExpressionStatement"), Plain("BlockStatement"),
              FunctionExpression(<<Identifier("t")>>), Plain("CallExpression"),
              Plain("ExpressionStatement"), Plain("BlockStatement"), TestCallback,
              Plain("CallExpression"), Plain("ExpressionStatement"), Plain("Program") >>

Places == { "top", "body", "if", "try", "arrowBody", "callbackExpr",
            "callbackBlock", "callbackT" }

IsFunction(node) == node.type \in { "ArrowFunctionExpression", "FunctionExpression" }

\* a path: a node together with the chain of its parents
Path(node, where) == [ node |-> node, where |-> where ]

TCall(member, arguments) == CallNode(CalleeMember("t", member), arguments)

\* argument lists of a call on `t`: n arguments, the second of kind `second`
ArgumentAt(i, second) ==
    IF i = 1 THEN Identifier("a")
    ELSE IF i = 2 THEN second
    ELSE IF i = 3 THEN StringLiteral("message")
    ELSE Identifier("extra")

SecondArguments == { Identifier("b"), StringLiteral("msg"), RegExpLiteral("/re/") }

ArgumentLists(max) ==
    { [ i \in 1..n |-> ArgumentAt(i, second) ] :
        n \in 0..max, second \in SecondArguments }

PropertyLists ==
    { <<>>,
      << Property(Identifier("skip"), BooleanLiteral("true")) >>,
      << Property(Identifier("skip"), BooleanLiteral("false")) >>,
      << Property(Identifier("timeout"), NumberLiteral("100")) >>,
      << SpreadProperty >>,
      << Property(Identifier("skip"), BooleanLiteral("true")),
         Property(Identifier("timeout"), NumberLiteral("100")) >> }

OptionArguments == { <<>> } \cup { << ObjectExpression(ps) >> : ps \in PropertyLists }

LastArguments ==
    { <<>>, << Identifier("cb") >>,
      << ArrowFunctionExpression(<<>>) >>,
      << ArrowFunctionExpression(<<Identifier("t")>>) >>,
      << ArrowFunctionExpression(<<Identifier("assert")>>) >>,
      << FunctionExpression(<<Identifier("t")>>) >>,
      << FunctionExpression(<<Identifier("assert")>>) >> }

TestArguments ==
    { <<>> } \cup
    { << StringLiteral("name") >> \o opts \o last :
        opts \in OptionArguments, last \in LastArguments }

TestCallees(name) ==
    { CalleeName(name), CalleeMember(name, "only"), CalleeMember(name, "onFinish") }

TestCalls(name) ==
    { CallNode(callee, arguments) :
        callee \in TestCallees(name), arguments \in TestArguments }

\* the everyday shapes, combined with every call on `t`
CommonTestCalls(name) ==
    { CallNode(callee, << StringLiteral("name") >> \o opts \o last) :
        callee \in { CalleeName(name), CalleeMember(name, "only") },
        opts \in { <<>>, << ObjectExpression(
                       << Property(Identifier("skip"), BooleanLiteral("true")) >>) >> },
        last \in { << ArrowFunctionExpression(<<Identifier("t")>>) >>,
                   << FunctionExpression(<<Identifier("t")>>) >> } }
    \cup { CallNode(CalleeName(name), <<>>) }

TCalls ==
    { TCall(member, arguments) :
        member \in DOMAIN tapeToJestExpect, arguments \in ArgumentLists(MaxArgs) }
    \cup { TCall(member, arguments) :
        member \in unsupportedTProperties, arguments \in ArgumentLists(1) }
    \cup { TCall("comment", << StringLiteral("msg") >>),
           TCall("plan", << NumberLiteral("1") >>),
           TCall("end", <<>>) }

CommonTCalls ==
    { TCall("ok", << Identifier("a") >>), TCall("plan", << NumberLiteral("1") >>),
      TCall("end", <<>>), TCall("fail", <<>>) }

LastOf(arguments) == At(arguments, Len(arguments))

\* where a call on `t` can stand, given the test call it is written next to
PlacesFor(testCall, node) ==
    LET last == LastOf(testCall.arguments) IN
    IF ~IsFunction(last) THEN { "top" }
    ELSE IF node.callee.property # "end" THEN { "body" }
    ELSE (Places \ { "arrowBody" })
         \cup (IF last.type = "ArrowFunctionExpression" THEN { "arrowBody" } ELSE {})

Tree(requires, tapeName, testCall, paths) ==
    [ requires |-> requires, tapeName |-> tapeName,
      testCall |-> testCall, paths |-> paths ]

PathsFor(testCall, nodes) ==
    { <<>> } \cup UNION { { << Path(n, w) >> : w \in PlacesFor(testCall, n) } : n \in nodes }

Named(calls, name) == { [ binding |-> name, call |-> c ] : c \in calls }

AllTestCalls == Named(TestCalls("test"), "test") \cup Named(TestCalls("tape"), "tape")
EverydayTestCalls ==
    Named(CommonTestCalls("test"), "test") \cup Named(CommonTestCalls("tape"), "tape")

\* the files explored: every test call beside an everyday call on `t`, every
\* call on `t` beside an everyday test call, and every set of requires
IsFile(file) ==
    \E family \in { [ requireSets |-> { {}, { "tape" } },
                      testCalls |-> AllTestCalls, nodes |-> CommonTCalls ],
                    [ requireSets |-> { {}, { "tape" } },
                      testCalls |-> EverydayTestCalls, nodes |-> TCalls ],
                    [ requireSets |-> SUBSET { "tape", "proxyquire", "testdouble" },
                      testCalls |-> EverydayTestCalls, nodes |-> CommonTCalls ] } :
    \E testCall \in family.testCalls :
    \E requires \in family.requireSets :
    \E paths \in PathsFor(testCall.call, family.nodes) :
       file = Tree(requires, IF "tape" \in requires THEN testCall.binding ELSE "",
                   testCall.call, paths)

(***************************************************************************)
(* Collaborators from ../utils.                                            *)
(***************************************************************************)
Null == ""

\* removeRequireAndImport(j, ast, 'tape'): the local name bound by the
\* require, or a falsy value when the file has none
removeRequireAndImportResult(tree, pkg) ==
    IF pkg \in tree.requires THEN tree.tapeName ELSE Null

\* ... and the tree it leaves behind: the require statement is removed
removeRequireAndImportTree(tree, pkg) ==
    [ tree EXCEPT !.requires = @ \ { pkg } ]

hasRequireOrImport(tree, pkg) == pkg \in tree.requires

\* logger(fileInfo, msg, node): one record per warning
Warning(kind, subject, anchor) == [ kind |-> kind, subject |-> subject, anchor |-> anchor ]

\* detectQuoteStyle(j, ast): 'single', 'double', or a falsy value
detectQuoteStyle(tree) == Null

(***************************************************************************)
(* The run.                                                                *)
(***************************************************************************)
\* what tapeToJest returns: the text it was given, or the printed tree
NoOutput ==
    [ from |-> "none", tree |-> Tree({}, "", CallNode(NoCallee, <<>>), <<>>), quote |-> "" ]
ReturnSource(text) == [ from |-> "fileInfo.source", tree |-> text, quote |-> "" ]
ToSource(tree, quote) == [ from |-> "ast.toSource", tree |-> tree, quote |-> quote ]

Init ==
    /\ IsFile(ast)
    /\ fileInfo = [ source |-> ast ]
    /\ testFunctionName = Null
    /\ pc = "tapeToJest"
    /\ ran = {}
    /\ warnings = <<>>
    /\ output = NoOutput

\* tapeToJest without the early return of lines 80-83
tapeToJestWithoutGate ==
    /\ pc = "tapeToJest"
    /\ testFunctionName' = removeRequireAndImportResult(ast, "tape")
    /\ ast' = removeRequireAndImportTree(ast, "tape")
    /\ pc' = "detectUnsupportedNaming"
    /\ UNCHANGED <<fileInfo, ran, warnings, output>>

\* tapeToJest, lines 74-85: parse, look for the Tape require, stop without it
tapeToJest ==
    /\ pc = "tapeToJest"
    /\ LET name == removeRequireAndImportResult(ast, "tape") IN
       /\ testFunctionName' = name
       /\ IF name = Null
          THEN /\ output' = ReturnSource(fileInfo.source)
               /\ pc' = "done"
               /\ UNCHANGED ast
          ELSE /\ ast' = removeRequireAndImportTree(ast, "tape")
               /\ pc' = "detectUnsupportedNaming"
               /\ UNCHANGED output
    /\ UNCHANGED <<fileInfo, ran, warnings>>

\* calls matched by { callee: { object: { name } } } or { callee: { name } }
IsTestMemberCall(call, name) ==
    call.callee.type = "MemberExpression" /\ call.callee.object = name
IsTestCall(call, name) ==
    call.callee.type = "Identifier" /\ call.callee.name = name

\* validateTestArgument, lines 90-98
validateTestArgument(call) ==
    LET lastArg == LastOf(call.arguments) IN
    IF lastArg # Undefined /\ Len(lastArg.params) > 0 /\ lastArg.params[1].name # "t"
    THEN << Warning("argument name", lastArg.params[1].name, "test call") >>
    ELSE <<>>

detectUnsupportedNaming ==
    /\ pc = "detectUnsupportedNaming"
    /\ warnings' = warnings
         \o (IF IsTestMemberCall(ast.testCall, testFunctionName)
             THEN validateTestArgument(ast.testCall) ELSE <<>>)
         \o (IF IsTestCall(ast.testCall, testFunctionName)
             THEN validateTestArgument(ast.testCall) ELSE <<>>)
    /\ ran' = ran \cup { "detectUnsupportedNaming" }
    /\ pc' = "detectUnsupportedFeatures"
    /\ UNCHANGED <<fileInfo, ast, testFunctionName, output>>

\* the warnings of a forEach over the paths, in traversal order
RECURSIVE Concat(_)
Concat(seqs) == IF seqs = <<>> THEN <<>> ELSE Head(seqs) \o Concat(Tail(seqs))

\* calls matched by { callee: { object: { name: 't' }, property: ... } }
IsTCall(node) ==
    /\ node.type = "CallExpression"
    /\ node.callee.type = "MemberExpression"
    /\ node.callee.object = "t"

\* String.prototype.toLowerCase on the member names of the denylist
toLowerCase(name) ==
    CASE name = "timeoutAfter" -> "timeoutafter"
      [] name = "deepLooseEqual" -> "deeplooseequal"
      [] name = "looseEqual" -> "looseequal"
      [] name = "looseEquals" -> "looseequals"
      [] name = "notDeepLooseEqual" -> "notdeeplooseequal"
      [] name = "notLooseEqual" -> "notlooseequal"
      [] name = "notLooseEquals" -> "notlooseequals"
      [] name = "ifErr" -> "iferr"
      [] OTHER -> name

\* String.prototype.indexOf('looseequal') on those names, -1 when absent
indexOfLooseequal(text) ==
    CASE text \in { "looseequal", "looseequals" } -> 0
      [] text \in { "notlooseequal", "notlooseequals" } -> 3
      [] text = "deeplooseequal" -> 4
      [] text = "notdeeplooseequal" -> 7
      [] OTHER -> -1

\* lines 120-127 with the name searched as written, not lowercased
unsupportedTWarningCaseSensitive(propertyName, anchor) ==
    IF indexOfLooseequal(propertyName) >= 0
    THEN Warning("not supported, try toEqual", propertyName, anchor)
    ELSE Warning("not supported", propertyName, anchor)

\* lines 120-127: the warning for one call on a denylisted member of `t`
unsupportedTWarning(propertyName, anchor) ==
    IF indexOfLooseequal(toLowerCase(propertyName)) >= 0
    THEN Warning("not supported, try toEqual", propertyName, anchor)
    ELSE Warning("not supported", propertyName, anchor)

detectUnsupportedFeatures ==
    /\ pc = "detectUnsupportedFeatures"
    /\ warnings' = warnings
         \o Concat([ i \in 1..Len(ast.paths) |->
              IF IsTCall(ast.paths[i].node)
                 /\ ast.paths[i].node.callee.property \in unsupportedTProperties
              THEN << unsupportedTWarning(ast.paths[i].node.callee.property, i) >>
              ELSE <<>> ])
         \o (IF /\ IsTestMemberCall(ast.testCall, testFunctionName)
                /\ ast.testCall.callee.property \in unsupportedTestFunctionProperties
             THEN << Warning("not supported", ast.testCall.callee.property, "test call") >>
             ELSE <<>>)
    /\ ran' = ran \cup { "detectUnsupportedFeatures" }
    /\ pc' = "updateAssertions"
    /\ UNCHANGED <<fileInfo, ast, testFunctionName, output>>

\* a builder call: the name of the new condition and its argument list
Condition(name, arguments) == [ name |-> name, arguments |-> arguments ]

\* lines 155-170 with any literal second argument taken for a message
throwsConditionAnyLiteral(oldPropertyName, args) ==
    LET secondArgString == Len(args) = 2 /\ args[2].type = "Literal"
        noErrorType == Len(args) = 1 \/ secondArgString
    IN IF noErrorType
       THEN Condition(IF oldPropertyName = "throws" THEN "toThrow" ELSE "not.toThrow", <<>>)
       ELSE Condition("toThrowError", << At(args, 2) >>)

\* lines 155-170: t.throws / t.doesNotThrow (args[1] is At(args, 2) here)
throwsCondition(oldPropertyName, args) ==
    LET secondArgString == /\ Len(args) = 2
                           /\ args[2].type = "Literal"
                           /\ args[2].vtype = "string"
        noErrorType == Len(args) = 1 \/ secondArgString
    IN IF noErrorType
       THEN Condition(IF oldPropertyName = "throws" THEN "toThrow" ELSE "not.toThrow", <<>>)
       ELSE Condition("toThrowError", << At(args, 2) >>)

PROP_WITH_SECONDS_ARGS == { "toBe", "not.toBe", "toEqual", "not.toEqual" }

\* lines 171-179 with 'not.toEqual' missing from the list of line 172
ordinaryConditionShortList(newPropertyName, args) ==
    LET hasSecondArgument == newPropertyName \in PROP_WITH_SECONDS_ARGS \ { "not.toEqual" }
    IN Condition(newPropertyName, IF hasSecondArgument THEN << At(args, 2) >> ELSE <<>>)

\* lines 171-179: every other entry of the table
ordinaryCondition(newPropertyName, args) ==
    LET hasSecondArgument == newPropertyName \in PROP_WITH_SECONDS_ARGS
    IN Condition(newPropertyName, IF hasSecondArgument THEN << At(args, 2) >> ELSE <<>>)

newCondition(oldPropertyName, args) ==
    LET newPropertyName == tapeToJestExpect[oldPropertyName] IN
    IF newPropertyName = SPECIAL_THROWS_CASE
    THEN throwsCondition(oldPropertyName, args)
    ELSE ordinaryCondition(newPropertyName, args)

\* lines 181-187: expect(args[0]).<condition>
newExpression(args, condition) ==
    MemberNode(CallNode(CalleeName("expect"), << At(args, 1) >>),
               CallNode(CalleeName(condition.name), condition.arguments))

IsAssertion(node) == IsTCall(node) /\ node.callee.property \in DOMAIN tapeToJestExpect

\* a builder rejects the replacement of this call
assertionThrows(node) ==
    LET condition == newCondition(node.callee.property, node.arguments) IN
    BuilderThrows(condition.arguments) \/ BuilderThrows(<< At(node.arguments, 1) >>)

updateAssertions ==
    /\ pc = "updateAssertions"
    /\ LET matched == { i \in 1..Len(ast.paths) : IsAssertion(ast.paths[i].node) }
           failing == { i \in matched : assertionThrows(ast.paths[i].node) }
           \* the forEach stops at the first call whose replacement cannot be built
           done    == { i \in matched : \A k \in failing : i < k }
       IN /\ ast' = [ ast EXCEPT !.paths = [ i \in 1..Len(ast.paths) |->
                        IF i \in done
                        THEN [ ast.paths[i] EXCEPT !.node =
                                 newExpression(@.arguments,
                                               newCondition(@.callee.property, @.arguments)) ]
                        ELSE ast.paths[i] ] ]
          /\ pc' = IF failing = {} THEN "updateTapeComments" ELSE "threw"
    /\ ran' = ran \cup { "updateAssertions" }
    /\ UNCHANGED <<fileInfo, testFunctionName, warnings, output>>

updateTapeComments ==
    /\ pc = "updateTapeComments"
    /\ ast' = [ ast EXCEPT !.paths = [ i \in 1..Len(ast.paths) |->
                  IF IsTCall(ast.paths[i].node) /\ ast.paths[i].node.callee.property = "comment"
                  THEN [ ast.paths[i] EXCEPT !.node.callee = CalleeString("console.log") ]
                  ELSE ast.paths[i] ] ]
    /\ ran' = ran \cup { "updateTapeComments" }
    /\ pc' = "rewriteTestCallExpression"
    /\ UNCHANGED <<fileInfo, testFunctionName, warnings, output>>

\* the node an ancestor entry denotes in the tree as it is now
Resolve(tree, ancestor) ==
    IF ancestor = TestCallback THEN LastOf(tree.testCall.arguments) ELSE ancestor

\* calls found by j(p).find(..., t.end) below the test call
IsEndCall(path) ==
    /\ path.where # "top"
    /\ IsTCall(path.node)
    /\ path.node.callee.property = "end"

\* lines 217-218: pEnd.parent.parent.parent.node and its first parameter
inTestScope(tree, path) ==
    LET outerParent == Resolve(tree, At(Ancestors(path.where), 3))
    IN Len(outerParent.params) > 0 /\ outerParent.params[1].name = "t"

\* lines 235-245: the properties of one options object, in order
Options(threw, name, logged) == [ threw |-> threw, name |-> name, logged |-> logged ]

RECURSIVE tapeOptions(_, _)
tapeOptions(properties, acc) ==
    IF properties = <<>> THEN acc
    ELSE LET tapeOption == Head(properties) IN
         IF tapeOption.key = Undefined \/ tapeOption.value = Undefined
         THEN Options(TRUE, acc.name, acc.logged)   \* TypeError: property of undefined
         ELSE LET tapeOptionKey == tapeOption.key.name
                  tapeOptionValue == tapeOption.value
              IN tapeOptions(Tail(properties),
                   Options(FALSE,
                     IF /\ tapeOptionKey = "skip"
                        /\ tapeOptionValue.vtype = "boolean"
                        /\ tapeOptionValue.value = "true"
                     THEN "test.skip" ELSE acc.name,
                     acc.logged \o
                       (IF tapeOptionKey = "timeout"
                        THEN << Warning("timeout option", "timeout", "test call") >>
                        ELSE <<>>)))

withoutObjects(arguments) == SelectSeq(arguments, LAMBDA pa : pa.type # "ObjectExpression")

\* lines 233-249: forEach over the argument list as it was when the loop began
RECURSIVE optionArguments(_, _)
optionArguments(rest, acc) ==
    IF rest = <<>> \/ acc.options.threw THEN acc
    ELSE LET a == Head(rest) IN
         IF a.type = "ObjectExpression"
         THEN LET options == tapeOptions(a.properties, acc.options) IN
              optionArguments(Tail(rest),
                [ options |-> options,
                  arguments |-> IF options.threw THEN acc.arguments
                                ELSE withoutObjects(acc.arguments) ])
         ELSE optionArguments(Tail(rest), acc)

\* lines 251-253
renamedCallee(name) == IF name # "xit" THEN "test" ELSE name

\* lines 256-266: the callback without its `t` parameter
strippedCallback(lastArg) ==
    IF lastArg.type = "ArrowFunctionExpression"
    THEN ArrowFunctionExpression(<< Identifier("()") >>)
    ELSE IF lastArg.type = "FunctionExpression"
    THEN [ lastArg EXCEPT !.params = << Identifier("") >> ]
    ELSE lastArg

rewriteTestCallExpression ==
    /\ pc = "rewriteTestCallExpression"
    /\ IF ~IsTestCall(ast.testCall, testFunctionName)
       THEN /\ pc' = "detectProblematicPackages"
            /\ UNCHANGED <<ast, warnings>>
       ELSE LET ends    == { i \in 1..Len(ast.paths) : IsEndCall(ast.paths[i]) }
                pruned  == { i \in ends : inTestScope(ast, ast.paths[i]) }
                kept    == SelectSeq([ i \in 1..Len(ast.paths) |->
                                        [ at |-> i, path |-> ast.paths[i] ] ],
                                     LAMBDA e : e.at \notin pruned)
                paths   == [ i \in 1..Len(kept) |-> kept[i].path ]
                containsDeepEndFunction == ends \ pruned # {}
                opts    == optionArguments(ast.testCall.arguments,
                             [ options |-> Options(FALSE, ast.testCall.callee.name, <<>>),
                               arguments |-> ast.testCall.arguments ])
                name    == IF opts.options.threw THEN opts.options.name
                           ELSE renamedCallee(opts.options.name)
                lastArg == LastOf(opts.arguments)
                threw   == opts.options.threw \/ lastArg = Undefined
                arguments == IF threw THEN opts.arguments
                             ELSE [ opts.arguments EXCEPT ![Len(opts.arguments)] =
                                      strippedCallback(lastArg) ]
            IN /\ ast' = [ ast EXCEPT !.paths = paths,
                                      !.testCall.callee.name = name,
                                      !.testCall.arguments = arguments ]
               /\ warnings' = warnings
                    \o (IF containsDeepEndFunction
                        THEN << Warning("t.end in callback", "end", "test call") >>
                        ELSE <<>>)
                    \o opts.options.logged
               /\ pc' = IF threw THEN "threw" ELSE "detectProblematicPackages"
    /\ ran' = ran \cup { "rewriteTestCallExpression" }
    /\ UNCHANGED <<fileInfo, testFunctionName, output>>

detectProblematicPackages ==
    /\ pc = "detectProblematicPackages"
    /\ warnings' = warnings
         \o Concat([ i \in 1..Len(problematicPackages) |->
              IF hasRequireOrImport(ast, problematicPackages[i])
              THEN << Warning("package", problematicPackages[i], "none") >>
              ELSE <<>> ])
    /\ ran' = ran \cup { "detectProblematicPackages" }
    /\ pc' = "toSource"
    /\ UNCHANGED <<fileInfo, ast, testFunctionName, output>>

\* lines 283-284
toSource ==
    /\ pc = "toSource"
    /\ output' = ToSource(ast, IF detectQuoteStyle(ast) # Null
                               THEN detectQuoteStyle(ast) ELSE "single")
    /\ pc' = "done"
    /\ UNCHANGED <<fileInfo, ast, testFunctionName, ran, warnings>>

Next ==
    \/ tapeToJest
    \/ detectUnsupportedNaming
    \/ detectUnsupportedFeatures
    \/ updateAssertions
    \/ updateTapeComments
    \/ rewriteTestCallExpression
    \/ detectProblematicPackages
    \/ toSource

Spec == Init /\ [][Next]_vars

(***************************************************************************)
(* Properties.                                                             *)
(***************************************************************************)
source == fileInfo.source

\* the call on `t` the file was written with, and what stands there now
SourceCalls == { i \in 1..Len(source.paths) : IsTCall(source.paths[i].node) }
Member(i) == source.paths[i].node.callee.property
Args(i) == source.paths[i].node.arguments

Expect(subject, matcher, arguments) ==
    MemberNode(CallNode(CalleeName("expect"), << subject >>),
               CallNode(CalleeName(matcher), arguments))

IsStringLiteral(node) == node.type = "Literal" /\ node.vtype = "string"

\* the rewritten call is in the tree from updateAssertions on, and in the output
StandsAt(i, node) ==
    /\ "updateAssertions" \in ran =>
         i \in 1..Len(ast.paths) /\ ast.paths[i].node = node
    /\ pc = "done" /\ testFunctionName # Null =>
         /\ output.from = "ast.toSource"
         /\ i \in 1..Len(output.tree.paths) /\ output.tree.paths[i].node = node

\* C1: without a require of Tape the run ends at once: the original text is
\* returned, no transform has run, the tree is as parsed, nothing is logged.
Gate_C1 ==
    (removeRequireAndImportResult(source, "tape") = Null /\ pc # "tapeToJest") =>
        /\ pc = "done"
        /\ output = ReturnSource(source)
        /\ ran = {}
        /\ ast = source
        /\ warnings = <<>>

Gate_C1_Witness ==
    /\ pc = "done"
    /\ testFunctionName = Null
    /\ IsTestCall(source.testCall, "test")
    /\ \E i \in SourceCalls : Member(i) = "equal" /\ Len(Args(i)) = 2

TruthyTargets == { "toBeTruthy", "toBeFalsy" }
EqualityTargets == { "toBe", "not.toBe", "toEqual", "not.toEqual" }

\* C2: t.<old>(a, ...) of the truthy/falsy family becomes expect(a).<new>(),
\* t.<old>(a, b, ...) of the equality family becomes expect(a).<new>(b); a
\* further argument is not copied.
AssertionMapping_C2 ==
    \A i \in SourceCalls :
       Member(i) \in DOMAIN tapeToJestExpect =>
          LET new == tapeToJestExpect[Member(i)] IN
          /\ (new \in TruthyTargets /\ Len(Args(i)) >= 1) =>
                StandsAt(i, Expect(Args(i)[1], new, <<>>))
          /\ (new \in EqualityTargets /\ Len(Args(i)) >= 2) =>
                StandsAt(i, Expect(Args(i)[1], new, << Args(i)[2] >>))

AssertionMapping_C2_Witness ==
    /\ pc = "done"
    /\ \E i \in SourceCalls :
          /\ Member(i) = "notDeepEqual"
          /\ Len(Args(i)) = 3
          /\ output.tree.paths[i].node = Expect(Args(i)[1], "not.toEqual", << Args(i)[2] >>)

\* C3: t.throws / t.doesNotThrow with one argument, or with two of which the
\* second is a string literal, becomes expect(fn).toThrow() / .not.toThrow();
\* with a second argument that is not a string literal it becomes
\* expect(fn).toThrowError(<second argument>).
ThrowsFamily_C3 ==
    \A i \in SourceCalls :
       Member(i) \in { "throws", "doesNotThrow" } =>
          /\ (Len(Args(i)) = 1 \/ (Len(Args(i)) = 2 /\ IsStringLiteral(Args(i)[2]))) =>
                StandsAt(i, Expect(Args(i)[1],
                                   IF Member(i) = "throws" THEN "toThrow" ELSE "not.toThrow",
                                   <<>>))
          /\ (Len(Args(i)) >= 2 /\ ~IsStringLiteral(Args(i)[2])) =>
                StandsAt(i, Expect(Args(i)[1], "toThrowError", << Args(i)[2] >>))

ThrowsFamily_C3_Witness ==
    /\ pc = "done"
    /\ \E i \in SourceCalls :
          /\ Member(i) = "throws"
          /\ Len(Args(i)) = 2
          /\ Args(i)[2] = RegExpLiteral("/re/")
          /\ output.tree.paths[i].node = Expect(Args(i)[1], "toThrowError", << Args(i)[2] >>)

HasSkipTrue(node) ==
    /\ node.type = "ObjectExpression"
    /\ \E k \in 1..Len(node.properties) :
          node.properties[k] = Property(Identifier("skip"), BooleanLiteral("true"))

\* C4: <testBinding>(name, {skip: true, ...}, callback) ends as test.skip(name,
\* callback): the callee is the skip variant and the options object is gone.
SkipOption_C4 ==
    ( /\ "rewriteTestCallExpression" \in ran
      /\ pc # "threw"
      /\ IsTestCall(source.testCall, testFunctionName)
      /\ Len(source.testCall.arguments) = 3
      /\ HasSkipTrue(source.testCall.arguments[2])
      /\ IsFunction(source.testCall.arguments[3]) ) =>
        /\ ast.testCall.callee.name = "test.skip"
        /\ \A k \in 1..Len(ast.testCall.arguments) :
              ast.testCall.arguments[k].type # "ObjectExpression"

RECURSIVE nearestFunction(_, _)
nearestFunction(tree, ancestors) ==
    IF ancestors = <<>> THEN Undefined
    ELSE IF IsFunction(Resolve(tree, Head(ancestors))) THEN Resolve(tree, Head(ancestors))
    ELSE nearestFunction(tree, Tail(ancestors))

EndWarned == \E k \in 1..Len(warnings) : warnings[k].kind = "t.end in callback"

\* C5: a t.end(...) inside a test call is judged by its nearest enclosing
\* function: first parameter `t` - the statement is deleted without a warning
\* (at any statement depth); otherwise it stays and the warning is logged.
EndPruning_C5 ==
    \A i \in 1..Len(source.paths) :
       ( /\ "rewriteTestCallExpression" \in ran
         /\ IsTestCall(source.testCall, testFunctionName)
         /\ IsEndCall(source.paths[i]) ) =>
           LET fn == nearestFunction(source, Ancestors(source.paths[i].where)) IN
           IF Len(fn.params) > 0 /\ fn.params[1].name = "t"
           THEN ast.paths = <<>> /\ ~EndWarned
           ELSE ast.paths = source.paths /\ EndWarned

IsPlaceholder(param) == param \in { Identifier("()"), Identifier("") }

\* C6: the bare form and the .only variant both lose the callback's `t`
\* parameter; the bare callee is spelled test, the .only callee is unchanged.
RenameAndStrip_C6 ==
    ( /\ "rewriteTestCallExpression" \in ran
      /\ pc # "threw"
      /\ \/ IsTestCall(source.testCall, testFunctionName)
         \/ /\ IsTestMemberCall(source.testCall, testFunctionName)
            /\ source.testCall.callee.property = "only"
      /\ IsFunction(LastOf(source.testCall.arguments)) ) =>
        /\ \A k \in 1..Len(LastOf(ast.testCall.arguments).params) :
              IsPlaceholder(LastOf(ast.testCall.arguments).params[k])
        /\ IsTestCall(source.testCall, testFunctionName) =>
              ast.testCall.callee = CalleeName("test")
        /\ IsTestMemberCall(source.testCall, testFunctionName) =>
              ast.testCall.callee = source.testCall.callee

LooseEqualityNames ==
    { "deepLooseEqual", "looseEqual", "looseEquals",
      "notDeepLooseEqual", "notLooseEqual", "notLooseEquals" }

Naming(member) == { k \in 1..Len(warnings) : warnings[k].subject = member }

\* C7: a call t.<member>(...) on a denylisted member gets exactly one warning
\* naming the member, in the toEqual wording exactly for the loose-equality
\* names, and stays in the tree unchanged through every transform.
UnsupportedMember_C7 ==
    \A i \in SourceCalls :
       Member(i) \in unsupportedTProperties =>
          /\ i \in 1..Len(ast.paths) /\ ast.paths[i] = source.paths[i]
          /\ pc = "done" =>
                i \in 1..Len(output.tree.paths) /\ output.tree.paths[i] = source.paths[i]
          /\ "detectUnsupportedFeatures" \in ran =>
                /\ Cardinality(Naming(Member(i))) = 1
                /\ \A k \in Naming(Member(i)) :
                      /\ warnings[k].anchor = i
                      /\ warnings[k].kind =
                           IF Member(i) \in LooseEqualityNames
                           THEN "not supported, try toEqual" ELSE "not supported"

UnsupportedMember_C7_Witness ==
    /\ pc = "done"
    /\ testFunctionName # Null
    /\ \E i \in SourceCalls :
          /\ Member(i) = "notDeepLooseEqual"
          /\ output.tree.paths[i] = source.paths[i]
          /\ Naming(Member(i)) # {}

\* C8: a t.throws / t.doesNotThrow call with more than two arguments is
\* warned about.
AmbiguousThrowsWarned_C8 ==
    \A i \in SourceCalls :
       ( /\ Member(i) \in { "throws", "doesNotThrow" }
         /\ Len(Args(i)) > 2
         /\ "updateAssertions" \in ran ) =>
           \E k \in 1..Len(warnings) : warnings[k].anchor = i

\* C9: in a file that uses the library the transforms run to completion: no
\* call shape makes one of them raise.
NoFailure_C9 == pc # "threw"

NegativeMembers ==
    { "notOk", "false", "notok",
      "notEqual", "notStrictEqual", "notStrictEquals", "isNotEqual", "doesNotEqual",
      "isInequal",
      "notDeepEqual", "notEquivalent", "notDeeply", "notSame", "isNotDeepEqual",
      "isNotEquivalent", "isInequivalent",
      "doesNotThrow" }

NegativeTargets == { "toBeFalsy", "not.toBe", "not.toEqual", "not.toThrow", "not.toThrowError" }

\* C10: every rewritten assertion keeps its polarity: a negative member of `t`
\* becomes a negative matcher, a positive member a positive one.
PolarityPreserved_C10 ==
    \A i \in SourceCalls :
       ( /\ Member(i) \in DOMAIN tapeToJestExpect
         /\ "updateAssertions" \in ran
         /\ i \in 1..Len(ast.paths)
         /\ ast.paths[i].node.type = "MemberExpression" ) =>
           (Member(i) \in NegativeMembers
              <=> ast.paths[i].node.property[1].callee.name \in NegativeTargets)

====
